---- MODULE Spec2Model ----
(***************************************************************************)
(* Status bar, first line (default-plugins/status-bar/src/first_line.rs).  *)
(*                                                                         *)
(* The module renders one width-constrained line of key hints.  Every      *)
(* function of the file is a pure function of its arguments, apart from    *)
(* the line accumulator (&mut LinePart) that several of them extend.  The  *)
(* model keeps the last call (op, args), the line accumulator (line) and   *)
(* the returned value (ret).  Text is a sequence of one-character strings; *)
(* styled text additionally holds escape tokens, which unstyle removes.    *)
(***************************************************************************)
EXTENDS Integers, Sequences, FiniteSets, TLC

VARIABLES op, args, line, ret, stderr

vars == <<op, args, line, ret, stderr>>

-----------------------------------------------------------------------------
(* Bounds of the model *)

\* largest character budget (max_len) tried
MaxBudget == 40

\* longest shortcut slice handed to key_indicators
MaxKeys == 2

\* the widest line first_line is asked for
MaxLen == 50

-----------------------------------------------------------------------------
(* Text *)

RECURSIVE Concat(_)
Concat(ss) == IF ss = <<>> THEN <<>> ELSE Head(ss) \o Concat(Tail(ss))

RECURSIVE Join(_, _)
Join(ss, glue) ==
    IF ss = <<>> THEN <<>>
    ELSE IF Len(ss) = 1 THEN ss[1]
    ELSE ss[1] \o glue \o Join(Tail(ss), glue)

IsPrefix(p, s) == Len(p) <= Len(s) /\ SubSeq(s, 1, Len(p)) = p

IsSuffix(p, s) == Len(p) <= Len(s) /\ SubSeq(s, Len(s) - Len(p) + 1, Len(s)) = p

\* str.chars().count()
CharsCount(s) == Len(s)

-----------------------------------------------------------------------------
(* Styling: ansi_term paints a fragment between escape sequences *)

StyleProfiles == {"unselected", "unselected_alternate", "selected", "disabled"}

StyleSlots == {"prefix_separator", "char_left_separator", "char_shortcut",
               "char_right_separator", "styled_text", "suffix_separator"}

Esc(profile, slot) == "ESC[" \o profile \o "." \o slot \o "m"

EscReset == "ESC[0m"

EscTokens == {Esc(p, s) : p \in StyleProfiles, s \in StyleSlots}
             \cup {Esc("superkey", "prefix"), Esc("superkey", "suffix_separator"), EscReset}

\* style.paint(text) written out by ANSIStrings(..).to_string()
Paint(profile, slot, text) == <<Esc(profile, slot)>> \o text \o <<EscReset>>

\* tests::unstyle: the regex \x1b\[[0-9;]*m replaced by nothing
unstyle(part) == SelectSeq(part, LAMBDA t : t \notin EscTokens)

-----------------------------------------------------------------------------
(* LinePart *)

LinePartDefault == [part |-> <<>>, len |-> 0]

\* LinePart::append
append(lp, other) == [part |-> lp.part \o other.part, len |-> lp.len + other.len]

-----------------------------------------------------------------------------
(* Keys *)

KeyModifiers == {"Ctrl", "Alt", "Shift", "Super"}

\* derive(Ord) order of the KeyModifier enum, the iteration order of BTreeSet
ModRank(m) == CASE m = "Ctrl" -> 1 [] m = "Alt" -> 2 [] m = "Shift" -> 3 [] m = "Super" -> 4

RECURSIVE SortedMods(_)
SortedMods(S) ==
    IF S = {} THEN <<>>
    ELSE LET m == CHOOSE x \in S : \A y \in S : ModRank(x) <= ModRank(y)
         IN  <<m>> \o SortedMods(S \ {m})

\* KeyModifier's Display
ModifierText(m) ==
    CASE m = "Ctrl" -> <<"C", "t", "r", "l">>
      [] m = "Alt" -> <<"A", "l", "t">>
      [] m = "Shift" -> <<"S", "h", "i", "f", "t">>
      [] m = "Super" -> <<"S", "u", "p", "e", "r">>

\* BareKey's Display; the left arrow glyph is one character
BareKeyText(bk) ==
    CASE bk = "Enter" -> <<"E", "N", "T", "E", "R">>
      [] bk = "Esc" -> <<"E", "S", "C">>
      [] bk = "Space" -> <<"S", "P", "A", "C", "E">>
      [] bk = "Backspace" -> <<"B", "A", "C", "K", "S", "P", "A", "C", "E">>
      [] bk = "Tab" -> <<"T", "A", "B">>
      [] bk = "Left" -> <<"{larr}">>
      [] OTHER -> <<bk>>

\* KeyWithModifier::new(bare_key) and the with_*_modifier builders
Key(bk, mods) == [bare_key |-> bk, key_modifiers |-> mods]

\* Option<KeyWithModifier>::None
NoKey == [bare_key |-> "None", key_modifiers |-> {}]

\* KeyWithModifier's Display: modifiers joined by " ", a space, the bare key
KeyText(k) ==
    IF k.key_modifiers = {} THEN BareKeyText(k.bare_key)
    ELSE Join([i \in 1..Cardinality(k.key_modifiers) |->
                 ModifierText(SortedMods(k.key_modifiers)[i])], <<" ">>)
         \o <<" ">> \o BareKeyText(k.bare_key)

\* KeyWithModifier::strip_common_modifiers
strip_common_modifiers(k, common_modifiers) ==
    [k EXCEPT !.key_modifiers = @ \ {common_modifiers[i] : i \in 1..Len(common_modifiers)}]

-----------------------------------------------------------------------------
(* KeyShortcut *)

KeyModes == {"Unselected", "UnselectedAlternate", "Selected", "Disabled"}

KeyActions == {"Normal", "Lock", "Unlock", "Pane", "Tab", "Resize", "Search",
               "Quit", "Session", "Move", "Tmux"}

\* mutant: the scroll and search modes and the rename modes get the action of
\* the mode they belong to
from_with_related_modes(input_mode) ==
    CASE input_mode = "Locked" -> "Lock"
      [] input_mode \in {"Pane", "RenamePane"} -> "Pane"
      [] input_mode \in {"Tab", "RenameTab"} -> "Tab"
      [] input_mode \in {"Search", "Scroll", "EnterSearch"} -> "Search"
      [] input_mode \in {"Resize", "Session", "Move", "Tmux"} -> input_mode
      [] OTHER -> "Normal"

\* impl From<InputMode> for KeyAction
from(input_mode) ==
    CASE input_mode = "Normal" -> "Normal"
      [] input_mode = "Locked" -> "Lock"
      [] input_mode = "Pane" -> "Pane"
      [] input_mode = "Tab" -> "Tab"
      [] input_mode = "Resize" -> "Resize"
      [] input_mode = "Search" -> "Search"
      [] input_mode = "Session" -> "Session"
      [] input_mode = "Move" -> "Move"
      [] input_mode = "Tmux" -> "Tmux"
      [] OTHER -> "Normal"

\* KeyShortcut::new
KeyShortcut(mode, action, key) == [mode |-> mode, action |-> action, key |-> key]

full_text(ks) ==
    CASE ks.action = "Normal" -> <<"U", "N", "L", "O", "C", "K">>
      [] ks.action = "Lock" -> <<"L", "O", "C", "K">>
      [] ks.action = "Unlock" -> <<"U", "N", "L", "O", "C", "K">>
      [] ks.action = "Pane" -> <<"P", "A", "N", "E">>
      [] ks.action = "Tab" -> <<"T", "A", "B">>
      [] ks.action = "Resize" -> <<"R", "E", "S", "I", "Z", "E">>
      [] ks.action = "Search" -> <<"S", "E", "A", "R", "C", "H">>
      [] ks.action = "Quit" -> <<"Q", "U", "I", "T">>
      [] ks.action = "Session" -> <<"S", "E", "S", "S", "I", "O", "N">>
      [] ks.action = "Move" -> <<"M", "O", "V", "E">>
      [] ks.action = "Tmux" -> <<"T", "M", "U", "X">>

\* mutant: every modifier is shortened to its first letter
ShortenedModifier_first_letter(m) ==
    CASE m = "Ctrl" -> <<"^", "C">>
      [] m = "Alt" -> <<"^", "A">>
      [] m = "Super" -> <<"^", "S">>
      [] m = "Shift" -> <<"^", "S">>
      [] OTHER -> <<>>

ShortenedModifier(m) ==
    CASE m = "Ctrl" -> <<"^", "C">>
      [] m = "Alt" -> <<"^", "A">>
      [] m = "Super" -> <<"^", "S", "u">>
      [] m = "Shift" -> <<"^", "S", "h">>
      [] OTHER -> <<>>

with_shortened_modifiers(ks, common_modifiers) ==
    IF ks.key = NoKey THEN <<"?">>
    ELSE LET key == strip_common_modifiers(ks.key, common_modifiers)
             mods == SortedMods(key.key_modifiers)
             shortened_modifiers ==
                 Join([i \in 1..Len(mods) |-> ShortenedModifier(mods[i])], <<"-">>)
         IN  IF shortened_modifiers = <<>> THEN KeyText(key)
             ELSE shortened_modifiers \o <<" ">> \o BareKeyText(key.bare_key)

letter_shortcut(ks, common_modifiers) ==
    IF ks.key = NoKey THEN <<"?">>
    ELSE KeyText(strip_common_modifiers(ks.key, common_modifiers))

\* the match on key.mode that picks one of the four style bundles
colors(ks) ==
    CASE ks.mode = "Unselected" -> "unselected"
      [] ks.mode = "UnselectedAlternate" -> "unselected_alternate"
      [] ks.mode = "Selected" -> "selected"
      [] ks.mode = "Disabled" -> "disabled"

-----------------------------------------------------------------------------
(* Tile renderers *)

\* mutant: the shared modifier is ignored when deciding on the leading separator
start_separator_first_only(separator, common_modifiers, first_tile) ==
    IF first_tile THEN <<>> ELSE separator

\* let start_separator = if !has_common_modifiers && first_tile { "" } else { separator }
start_separator(separator, common_modifiers, first_tile) ==
    IF common_modifiers = <<>> /\ first_tile THEN <<>> ELSE separator

\* the six painted fragments of a long or shortened-modifier tile and their counted width
BracketTile(key, separator, key_binding, start) ==
    LET key_hint == full_text(key)
        c == colors(key)
    IN  [part |-> Paint(c, "prefix_separator", start)
                  \o Paint(c, "char_left_separator", <<" ", "<">>)
                  \o Paint(c, "char_shortcut", key_binding)
                  \o Paint(c, "char_right_separator", <<">", " ">>)
                  \o Paint(c, "styled_text", key_hint \o <<" ">>)
                  \o Paint(c, "suffix_separator", separator),
         len |-> CharsCount(start) + 2 + CharsCount(key_binding) + 2
                 + CharsCount(key_hint) + 1 + CharsCount(separator)]

\* mutant: a shortcut without a key is rendered with an empty bracket pair in every mode
long_mode_shortcut_always_rendered(key, separator, common_modifiers, first_tile) ==
    BracketTile(key, separator,
                IF key.key = NoKey THEN <<>> ELSE letter_shortcut(key, common_modifiers),
                start_separator(separator, common_modifiers, first_tile))

long_mode_shortcut(key, separator, common_modifiers, first_tile) ==
    IF key.key = NoKey /\ key.mode # "Disabled" THEN LinePartDefault
    ELSE LET key_binding == IF key.key = NoKey THEN <<>>
                            ELSE letter_shortcut(key, common_modifiers)
         IN  BracketTile(key, separator, key_binding,
                         start_separator(separator, common_modifiers, first_tile))

\* mutant: a disabled shortcut without a key shows the "?" of with_shortened_modifiers
shortened_modifier_shortcut_question_mark(key, separator, common_modifiers, first_tile) ==
    IF key.key = NoKey /\ key.mode # "Disabled" THEN LinePartDefault
    ELSE BracketTile(key, separator, with_shortened_modifiers(key, common_modifiers),
                     start_separator(separator, common_modifiers, first_tile))

shortened_modifier_shortcut(key, separator, common_modifiers, first_tile) ==
    IF key.key = NoKey /\ key.mode # "Disabled" THEN LinePartDefault
    ELSE LET key_binding == IF key.key = NoKey THEN <<>>
                            ELSE with_shortened_modifiers(key, common_modifiers)
         IN  BracketTile(key, separator, key_binding,
                         start_separator(separator, common_modifiers, first_tile))

short_mode_shortcut(key, separator, common_modifiers, first_tile) ==
    IF key.key = NoKey /\ key.mode # "Disabled" THEN LinePartDefault
    ELSE LET key_binding == IF key.key = NoKey THEN <<>>
                            ELSE letter_shortcut(key, common_modifiers)
             c == colors(key)
             start == start_separator(separator, common_modifiers, first_tile)
         IN  [part |-> Paint(c, "prefix_separator", start)
                       \o Paint(c, "char_shortcut", <<" ">> \o key_binding \o <<" ">>)
                       \o Paint(c, "suffix_separator", separator),
              len |-> CharsCount(separator) + 1 + CharsCount(key_binding) + 1
                      + CharsCount(separator)]

-----------------------------------------------------------------------------
(* ModeInfo: the current input mode, the key bindings of every mode and the *)
(* capability flags                                                         *)

InputModes == {"Normal", "Locked", "Resize", "Pane", "Tab", "Scroll", "EnterSearch",
               "Search", "RenameTab", "RenamePane", "Session", "Move", "Prompt", "Tmux"}

\* Action::SwitchToMode(mode)
SwitchToMode(mode) == [name |-> "SwitchToMode", mode |-> mode]

\* an action without an input mode: Action::Quit, Action::NewPane(None, None), ...
Act(name) == [name |-> name, mode |-> "-"]

\* one entry (KeyWithModifier, Vec<Action>) of a mode's key bindings
Bind(key, actions) == [key |-> key, actions |-> actions]

NoKeybinds == [m \in InputModes |-> <<>>]

ModeInfo(mode, keybinds, arrow_fonts) ==
    [mode |-> mode, keybinds |-> keybinds, arrow_fonts |-> arrow_fonts]

\* ModeInfo::default()
NoHelp == ModeInfo("Normal", NoKeybinds, TRUE)

get_mode_keybinds(mode_info) == mode_info.keybinds[mode_info.mode]

get_keybinds_for_mode(mode_info, mode) == mode_info.keybinds[mode]

\* mutant: only the unmodified ' ', '\n' and Esc count as the way back to normal
IsToNormalKey_unmodified_only(key) ==
    key.bare_key \in {"Space", "Enter", "Esc"} /\ key.key_modifiers = {}

\* the three default keys that lead back to normal mode: ' ', '\n', Esc
IsToNormalKey(key) == key.bare_key \in {"Space", "Enter", "Esc"}

SwitchTargets == {"Normal", "Locked", "Pane", "Tab", "Resize", "Move", "Scroll", "Session"}

\* the filter_map closure of mode_switch_keys: is the key of this binding kept?
is_mode_switch_bind(b) ==
    /\ b.actions # <<>>
    /\ ~IsToNormalKey(b.key)
    /\ \/ /\ b.actions[1].name = "SwitchToMode"
          /\ b.actions[1].mode \in SwitchTargets
       \/ b.actions[1].name = "Quit"

RECURSIVE mode_switch_keys_of(_)
mode_switch_keys_of(binds) ==
    IF binds = <<>> THEN <<>>
    ELSE (IF is_mode_switch_bind(Head(binds)) THEN <<Head(binds).key>> ELSE <<>>)
         \o mode_switch_keys_of(Tail(binds))

mode_switch_keys(mode_info) == mode_switch_keys_of(get_mode_keybinds(mode_info))

\* the modifiers every key of the list has; none for an empty list
get_common_modifiers(keyvec) ==
    IF keyvec = <<>> THEN <<>>
    ELSE SortedMods({m \in KeyModifiers :
                        \A i \in 1..Len(keyvec) : m \in keyvec[i].key_modifiers})

\* mutant: the banner text is the same with and without arrow_fonts
BannerText_without_extra_space(mode_info, common_modifiers) ==
    <<" ">>
    \o Join([i \in 1..Len(common_modifiers) |-> ModifierText(common_modifiers[i])], <<"-">>)
    \o <<" ", "+">>

\* " {} +" or, with arrow_fonts, " {} + ": the shared modifiers joined by "-"
BannerText(mode_info, common_modifiers) ==
    <<" ">>
    \o Join([i \in 1..Len(common_modifiers) |-> ModifierText(common_modifiers[i])], <<"-">>)
    \o (IF mode_info.arrow_fonts THEN <<" ", "+", " ">> ELSE <<" ", "+">>)

\* superkey: the line accumulator after the call and the returned modifiers
superkey(separator, mode_info, line_part_to_render) ==
    LET common_modifiers == get_common_modifiers(mode_switch_keys(mode_info))
        prefix_text == BannerText(mode_info, common_modifiers)
    IN  IF common_modifiers = <<>>
        THEN [line |-> line_part_to_render, common_modifiers |-> common_modifiers]
        ELSE [line |-> [part |-> line_part_to_render.part
                                 \o Paint("superkey", "prefix", prefix_text)
                                 \o Paint("superkey", "suffix_separator", separator),
                        len |-> line_part_to_render.len + CharsCount(prefix_text)
                                + CharsCount(separator)],
              common_modifiers |-> common_modifiers]

-----------------------------------------------------------------------------
(* Line composer *)

\* the long tier: every tile is "first" when the line to render is still empty
RECURSIVE LongTier(_, _, _, _, _)
LongTier(keys, separator, shared_modifiers, line_empty, line_part) ==
    IF keys = <<>> THEN line_part
    ELSE LongTier(Tail(keys), separator, shared_modifiers, line_empty,
                  append(line_part,
                         long_mode_shortcut(Head(keys), separator, shared_modifiers,
                                            line_empty)))

\* the shortened-modifier tier: a tile is "first" while the tier is still empty
RECURSIVE ShortenedTier(_, _, _, _)
ShortenedTier(keys, separator, shared_modifiers, line_part) ==
    IF keys = <<>> THEN line_part
    ELSE ShortenedTier(Tail(keys), separator, shared_modifiers,
                       append(line_part,
                              shortened_modifier_shortcut(Head(keys), separator,
                                                          shared_modifiers,
                                                          line_part.len = 0)))

\* the short tier: a tile is "first" while the tier is still empty
RECURSIVE ShortTier(_, _, _, _)
ShortTier(keys, separator, shared_modifiers, line_part) ==
    IF keys = <<>> THEN line_part
    ELSE ShortTier(Tail(keys), separator, shared_modifiers,
                   append(line_part,
                          short_mode_shortcut(Head(keys), separator, shared_modifiers,
                                              line_part.len = 0)))

\* mutant: the tier is compared with what is left of the budget, and what is
\* left wraps around to a huge number when the line is already over the budget
Fits_in_wrapped_remainder(line_part_to_render, line_part, max_len) ==
    IF max_len >= line_part_to_render.len
    THEN line_part.len < max_len - line_part_to_render.len
    ELSE TRUE

\* mutant: the fit check lets a tier through that fills the budget exactly
Fits_or_equal(line_part_to_render, line_part, max_len) ==
    line_part_to_render.len + line_part.len <= max_len

\* if line_part_to_render.len + line_part.len < max_len
Fits(line_part_to_render, line_part, max_len) ==
    line_part_to_render.len + line_part.len < max_len

\* key_indicators: the line accumulator after the call
key_indicators(max_len, keys, separator, mode_info, line_part_to_render) ==
    IF keys = <<>> THEN line_part_to_render
    ELSE LET sk == superkey(separator, mode_info, line_part_to_render)
             long == LongTier(keys, separator, sk.common_modifiers, sk.line.len = 0,
                              LinePartDefault)
             shortened == ShortenedTier(keys, separator, sk.common_modifiers, LinePartDefault)
             short == ShortTier(keys, separator, sk.common_modifiers, LinePartDefault)
         IN  IF Fits(sk.line, long, max_len) THEN append(sk.line, long)
             ELSE IF Fits(sk.line, shortened, max_len) THEN append(sk.line, shortened)
             ELSE IF Fits(sk.line, short, max_len) THEN append(sk.line, short)
             ELSE sk.line

-----------------------------------------------------------------------------
(* Inputs of the calls *)

Separators == {<<>>, <<">">>, <<"+", "+">>}

CommonModifierSets == {<<>>, <<"Ctrl">>, <<"Alt">>, <<"Ctrl", "Alt">>, <<"Super">>}

TileKeys == {NoKey, Key("a", {}), Key("a", {"Ctrl"}), Key("0", {"Ctrl", "Alt"}),
             Key("Enter", {"Alt"}), Key("Left", {"Shift", "Super"}),
             Key("x", {"Ctrl", "Shift", "Super"})}

TileShortcuts == {KeyShortcut(m, a, k) : m \in KeyModes, a \in KeyActions, k \in TileKeys}

NoArgs == [key |-> KeyShortcut("Unselected", "Normal", NoKey), separator |-> <<>>,
           common_modifiers |-> <<>>, first_tile |-> FALSE,
           max_len |-> 0, keys |-> <<>>, help |-> NoHelp, line |-> LinePartDefault,
           tab_info |-> [is_some |-> FALSE,
                         active_swap_layout_name |-> [is_some |-> FALSE, value |-> <<>>],
                         is_swap_layout_dirty |-> FALSE],
           order |-> <<>>, quicknav_width |-> 0, key_shortcuts |-> <<>>,
           input_mode |-> "Normal"]

TileArgs(key, separator, common_modifiers, first_tile) ==
    [NoArgs EXCEPT !.key = key, !.separator = separator,
                   !.common_modifiers = common_modifiers, !.first_tile = first_tile]

-----------------------------------------------------------------------------
(* Calls of the tile renderers.  Every call is made on freshly built        *)
(* arguments: it starts from the initial state and ends in the state that  *)
(* holds its result.                                                       *)

Init ==
    /\ op = "init"
    /\ args = NoArgs
    /\ line = LinePartDefault
    /\ ret = LinePartDefault
    /\ stderr = <<>>

LongModeShortcut ==
    /\ op = "init"
    /\ \E key \in TileShortcuts, separator \in Separators,
          common_modifiers \in CommonModifierSets, first_tile \in BOOLEAN :
           /\ op' = "long_mode_shortcut"
           /\ stderr' = <<>>
           /\ args' = TileArgs(key, separator, common_modifiers, first_tile)
           /\ ret' = long_mode_shortcut(key, separator, common_modifiers, first_tile)
           /\ line' = LinePartDefault

ShortenedModifierShortcut ==
    /\ op = "init"
    /\ \E key \in TileShortcuts, separator \in Separators,
          common_modifiers \in CommonModifierSets, first_tile \in BOOLEAN :
           /\ op' = "shortened_modifier_shortcut"
           /\ stderr' = <<>>
           /\ args' = TileArgs(key, separator, common_modifiers, first_tile)
           /\ ret' = shortened_modifier_shortcut(key, separator, common_modifiers, first_tile)
           /\ line' = LinePartDefault

ShortModeShortcut ==
    /\ op = "init"
    /\ \E key \in TileShortcuts, separator \in Separators,
          common_modifiers \in CommonModifierSets, first_tile \in BOOLEAN :
           /\ op' = "short_mode_shortcut"
           /\ stderr' = <<>>
           /\ args' = TileArgs(key, separator, common_modifiers, first_tile)
           /\ ret' = short_mode_shortcut(key, separator, common_modifiers, first_tile)
           /\ line' = LinePartDefault

NextTiles == LongModeShortcut \/ ShortenedModifierShortcut \/ ShortModeShortcut

SpecTiles == Init /\ [][NextTiles]_vars

TileOps == {"long_mode_shortcut", "shortened_modifier_shortcut", "short_mode_shortcut"}

BracketTileOps == {"long_mode_shortcut", "shortened_modifier_shortcut"}

-----------------------------------------------------------------------------
(* Properties of the tile renderers *)

\* the returned tile with the styling removed
RetText == unstyle(ret.part)

Unbound == args.key.key = NoKey

\* C2: for every tile of the three renderers, the reported len is the number of
\* characters of the tile's text with the styling removed.
C2_LenIsVisibleWidth ==
    op \in TileOps => ret.len = CharsCount(RetText)

\* C7: a shortcut without a key whose mode is Unselected, UnselectedAlternate or
\* Selected renders as the empty LinePart in all three renderers, whatever the
\* separator, the common modifiers and the first_tile flag.
C7_UnboundIsEmpty ==
    (op \in TileOps /\ Unbound /\ args.key.mode # "Disabled")
        => (ret.part = <<>> /\ ret.len = 0)

C7_Witness ==
    /\ op = "shortened_modifier_shortcut"
    /\ Unbound
    /\ args.key.mode = "Selected"
    /\ args.separator = <<"+", "+">>
    /\ args.common_modifiers = <<"Ctrl">>
    /\ args.first_tile
    /\ ret = LinePartDefault

\* C8 as stated: a disabled shortcut without a key renders, in the long and the
\* shortened-modifier tile, as separator + " <> " + LABEL + " " + separator.
C8_DisabledUnboundFramed ==
    (op \in BracketTileOps /\ Unbound /\ args.key.mode = "Disabled")
        => /\ ret.len > 0
           /\ RetText = args.separator \o <<" ", "<", ">", " ">> \o full_text(args.key)
                        \o <<" ">> \o args.separator

\* C8 amended: a disabled shortcut without a key renders, in the long and the
\* shortened-modifier tile, as a non-empty tile " <> " + LABEL + " " + separator,
\* preceded by the separator unless first_tile is set and there is no common
\* modifier.
C8_DisabledUnboundBrackets ==
    (op \in BracketTileOps /\ Unbound /\ args.key.mode = "Disabled")
        => /\ ret.len > 0
           /\ RetText = (IF args.first_tile /\ args.common_modifiers = <<>>
                         THEN <<>> ELSE args.separator)
                        \o <<" ", "<", ">", " ">> \o full_text(args.key)
                        \o <<" ">> \o args.separator

C8_Witness ==
    /\ op = "shortened_modifier_shortcut"
    /\ Unbound
    /\ args.key = KeyShortcut("Disabled", "Session", NoKey)
    /\ args.separator = <<"+", "+">>
    /\ args.first_tile
    /\ args.common_modifiers = <<>>
    /\ RetText = <<" ", "<", ">", " ", "S", "E", "S", "S", "I", "O", "N", " ", "+", "+">>

\* C9: for a disabled shortcut without a key the short tile is the empty
\* LinePart (empty text, len 0).
C9_ShortDisabledUnboundEmpty ==
    (op = "short_mode_shortcut" /\ Unbound /\ args.key.mode = "Disabled")
        => (ret.part = <<>> /\ ret.len = 0)

\* the leading separator is left out: the tile starts with the blank of its body
LeadingSeparatorOmitted == Len(RetText) > 0 /\ RetText[1] = " "

\* the tile starts with the separator, the blank of its body following it
LeadingSeparatorPrinted ==
    /\ IsPrefix(args.separator, RetText)
    /\ Len(RetText) > Len(args.separator)
    /\ RetText[Len(args.separator) + 1] = " "

TrailingSeparatorPrinted ==
    /\ IsSuffix(args.separator, RetText)
    /\ Len(RetText) > Len(args.separator)
    /\ RetText[Len(RetText) - Len(args.separator)] = " "

SeparatorRule ==
    /\ (args.first_tile /\ args.common_modifiers = <<>>) => LeadingSeparatorOmitted
    /\ ~(args.first_tile /\ args.common_modifiers = <<>>) => LeadingSeparatorPrinted
    /\ TrailingSeparatorPrinted

\* C10 as stated: in every tile renderer the leading separator is omitted if and
\* only if first_tile is set and there is no common modifier, otherwise the tile
\* starts with the separator; the trailing separator is always printed.
C10_SeparatorRuleAlways ==
    op \in TileOps => SeparatorRule

\* C10 amended: every tile that is rendered (the shortcut has a key, or its mode
\* is Disabled) omits the leading separator if and only if first_tile is set and
\* there is no common modifier, otherwise it starts with the separator; its
\* trailing separator is always printed.  A tile that is not rendered is empty.
C10_SeparatorRuleOfRenderedTiles ==
    (op \in TileOps /\ (~Unbound \/ args.key.mode = "Disabled")) => SeparatorRule

C10_Witness ==
    /\ op = "long_mode_shortcut"
    /\ args.key = KeyShortcut("Selected", "Session", Key("0", {"Ctrl", "Alt"}))
    /\ args.separator = <<"+", "+">>
    /\ args.first_tile
    /\ args.common_modifiers = <<"Ctrl">>
    /\ RetText = <<"+", "+", " ", "<", "A", "l", "t", " ", "0", ">", " ",
                   "S", "E", "S", "S", "I", "O", "N", " ", "+", "+">>

\* the three tiles of the call's arguments
LongTileOfCall ==
    long_mode_shortcut(args.key, args.separator, args.common_modifiers, args.first_tile)

ShortenedTileOfCall ==
    shortened_modifier_shortcut(args.key, args.separator, args.common_modifiers,
                                args.first_tile)

ShortTileOfCall ==
    short_mode_shortcut(args.key, args.separator, args.common_modifiers, args.first_tile)

\* C25: for the same shortcut with a key, separator, common modifiers and
\* first_tile flag, len(short tile) <= len(shortened-modifier tile) <=
\* len(long tile).
C25_TerserTileIsNotWider ==
    (op \in TileOps /\ ~Unbound) =>
        /\ ShortTileOfCall.len <= ShortenedTileOfCall.len
        /\ ShortenedTileOfCall.len <= LongTileOfCall.len

-----------------------------------------------------------------------------
(* Calls of key_indicators *)

\* the shortcuts the composer is tried on
ComposerShortcuts ==
    {KeyShortcut("Selected", "Pane", Key("a", {"Ctrl"})),
     KeyShortcut("Unselected", "Tab", Key("0", {"Ctrl", "Alt"})),
     KeyShortcut("Disabled", "Lock", NoKey),
     KeyShortcut("Selected", "Quit", NoKey)}

ComposerKeys == UNION {[1..n -> ComposerShortcuts] : n \in 0..MaxKeys}

\* key bindings of the current mode: none; all mode switches on Ctrl; Ctrl+Alt
\* with an ignored Enter; Super next to an entry without actions and an action
\* that switches no mode
ComposerKeybinds ==
    {<<>>,
     <<Bind(Key("a", {"Ctrl"}), <<SwitchToMode("Pane")>>),
       Bind(Key("b", {"Ctrl"}), <<SwitchToMode("Resize")>>)>>,
     <<Bind(Key("a", {"Ctrl", "Alt"}), <<SwitchToMode("Pane")>>),
       Bind(Key("Enter", {}), <<SwitchToMode("Normal")>>),
       Bind(Key("q", {"Ctrl", "Alt"}), <<Act("Quit")>>)>>,
     <<Bind(Key("x", {}), <<>>),
       Bind(Key("n", {"Alt"}), <<Act("NewPane")>>),
       Bind(Key("g", {"Super"}), <<SwitchToMode("Locked")>>)>>}

ComposerHelps ==
    {ModeInfo("Normal", [NoKeybinds EXCEPT !["Normal"] = kb], af) :
        kb \in ComposerKeybinds, af \in BOOLEAN}

\* the line accumulator handed in: empty, or holding an earlier segment
ComposerLines == {LinePartDefault,
                  [part |-> Paint("superkey", "prefix", <<" ", "x", " ">>), len |-> 3]}

KeyIndicators ==
    /\ op = "init"
    /\ \E max_len \in 0..MaxBudget, keys \in ComposerKeys, separator \in Separators,
          mode_info \in ComposerHelps, line_part_to_render \in ComposerLines :
           /\ op' = "key_indicators"
           /\ stderr' = <<>>
           /\ args' = [NoArgs EXCEPT !.max_len = max_len, !.keys = keys,
                                     !.separator = separator, !.help = mode_info,
                                     !.line = line_part_to_render]
           /\ line' = key_indicators(max_len, keys, separator, mode_info,
                                     line_part_to_render)
           /\ ret' = LinePartDefault

NextComposer == KeyIndicators

SpecComposer == Init /\ [][NextComposer]_vars

-----------------------------------------------------------------------------
(* Properties of key_indicators *)

\* the shared modifiers of the call and the line once the banner is on it
SharedModifiers == get_common_modifiers(mode_switch_keys(args.help))

AfterBanner == superkey(args.separator, args.help, args.line).line

\* is the shortcut rendered at all (it has a key, or it is disabled)?
IsRendered(ks) == ks.key # NoKey \/ ks.mode = "Disabled"

\* within a tier built on its own, a tile is first when nothing was rendered before it
NothingRenderedBefore(i) == \A j \in 1..(i - 1) : ~IsRendered(args.keys[j])

RECURSIVE ConcatParts(_)
ConcatParts(tiles) ==
    IF tiles = <<>> THEN LinePartDefault ELSE append(Head(tiles), ConcatParts(Tail(tiles)))

LongTiles ==
    ConcatParts([i \in 1..Len(args.keys) |->
        long_mode_shortcut(args.keys[i], args.separator, SharedModifiers,
                           AfterBanner.len = 0)])

ShortenedTiles ==
    ConcatParts([i \in 1..Len(args.keys) |->
        shortened_modifier_shortcut(args.keys[i], args.separator, SharedModifiers,
                                    NothingRenderedBefore(i))])

ShortTiles ==
    ConcatParts([i \in 1..Len(args.keys) |->
        short_mode_shortcut(args.keys[i], args.separator, SharedModifiers,
                            NothingRenderedBefore(i))])

TierFits(tiles) == AfterBanner.len + tiles.len < args.max_len

\* C5: for a non-empty shortcut list, key_indicators appends the tiles of one
\* tier only: the long tiles if the line after the banner plus their total is
\* below max_len, else the shortened-modifier tiles if their total passes the
\* same check, else the short tiles if theirs does; tiers are never mixed.
C5_OneTierByVerbosity ==
    (op = "key_indicators" /\ args.keys # <<>>) =>
        /\ TierFits(LongTiles) => line = append(AfterBanner, LongTiles)
        /\ (~TierFits(LongTiles) /\ TierFits(ShortenedTiles))
               => line = append(AfterBanner, ShortenedTiles)
        /\ (~TierFits(LongTiles) /\ ~TierFits(ShortenedTiles) /\ TierFits(ShortTiles))
               => line = append(AfterBanner, ShortTiles)

C5_Witness ==
    /\ op = "key_indicators"
    /\ Len(args.keys) = 2
    /\ SharedModifiers = <<"Ctrl">>
    /\ ~TierFits(LongTiles)
    /\ TierFits(ShortenedTiles)
    /\ ShortenedTiles.part # LongTiles.part
    /\ ShortenedTiles.part # ShortTiles.part
    /\ line = append(AfterBanner, ShortenedTiles)

\* C6: when none of the three tiers passes the fit check, the line accumulator
\* (text and len) after key_indicators is what it was before the call.
C6_NothingFitsLineUntouched ==
    (/\ op = "key_indicators"
     /\ args.keys # <<>>
     /\ ~TierFits(LongTiles) /\ ~TierFits(ShortenedTiles) /\ ~TierFits(ShortTiles))
        => line = args.line

\* the tile of one tier
TierTile(tier, key, first_tile) ==
    CASE tier = "long" ->
             long_mode_shortcut(key, args.separator, SharedModifiers, first_tile)
      [] tier = "shortened" ->
             shortened_modifier_shortcut(key, args.separator, SharedModifiers, first_tile)
      [] tier = "short" ->
             short_mode_shortcut(key, args.separator, SharedModifiers, first_tile)

\* a tier in which no tile but the first emitted one is rendered as first
FirstOnlyTiles(tier, first_tile) ==
    ConcatParts([i \in 1..Len(args.keys) |->
        TierTile(tier, args.keys[i], first_tile /\ NothingRenderedBefore(i))])

FirstOnlyTier(tier) ==
    \E first_tile \in BOOLEAN : line = append(AfterBanner, FirstOnlyTiles(tier, first_tile))

\* C18: in the tier key_indicators appends, only the very first emitted tile is
\* rendered as first; every later tile of the tier carries its leading
\* separator.
C18_OnlyFirstTileIsFirst ==
    (op = "key_indicators" /\ args.keys # <<>>) =>
        /\ TierFits(LongTiles) => FirstOnlyTier("long")
        /\ (~TierFits(LongTiles) /\ TierFits(ShortenedTiles)) => FirstOnlyTier("shortened")
        /\ (~TierFits(LongTiles) /\ ~TierFits(ShortenedTiles) /\ TierFits(ShortTiles))
               => FirstOnlyTier("short")

\* the tier fills the budget exactly
TierFillsBudget(tiles) == tiles.len > 0 /\ AfterBanner.len + tiles.len = args.max_len

\* C19: the fit check of every tier is strict: a tier whose total (line.len +
\* tier length) equals max_len is rejected, and whenever key_indicators appends
\* tiles the line that results is shorter than max_len.
C19_StrictFitCheck ==
    (op = "key_indicators" /\ args.keys # <<>>) =>
        /\ line # AfterBanner => line.len < args.max_len
        /\ \A tiles \in {LongTiles, ShortenedTiles, ShortTiles} :
               TierFillsBudget(tiles) => line # append(AfterBanner, tiles)

\* the long tiles fill the budget exactly and the shortened-modifier tiles are taken
C19_Witness ==
    /\ op = "key_indicators"
    /\ TierFillsBudget(LongTiles)
    /\ TierFits(ShortenedTiles)
    /\ ShortenedTiles.len < LongTiles.len
    /\ line = append(AfterBanner, ShortenedTiles)
    /\ line.len < args.max_len

\* the tier a line shows: 3 long, 2 shortened modifiers, 1 short, 0 nothing
TierShown(line_part) ==
    IF line_part = append(AfterBanner, LongTiles) THEN 3
    ELSE IF line_part = append(AfterBanner, ShortenedTiles) THEN 2
    ELSE IF line_part = append(AfterBanner, ShortTiles) THEN 1
    ELSE 0

\* the same call with one more cell of budget
WithOneMoreCell ==
    key_indicators(args.max_len + 1, args.keys, args.separator, args.help, args.line)

\* C26: key_indicators is monotone in the budget: with the same shortcuts,
\* separator, mode info and starting line, the tier committed with a larger
\* max_len is at least as verbose as with a smaller one, and what fits is never
\* dropped.  Stated for max_len and max_len + 1, every max_len being called; the
\* order of any two budgets follows step by step.
C26_MonotoneInBudget ==
    (op = "key_indicators" /\ args.keys # <<>>) =>
        /\ TierShown(WithOneMoreCell) >= TierShown(line)
        /\ line # AfterBanner => WithOneMoreCell # AfterBanner

\* a budget at which the short tiles are shown and one more cell brings the
\* shortened-modifier tiles
C26_Witness ==
    /\ op = "key_indicators"
    /\ TierShown(line) = 1
    /\ TierShown(WithOneMoreCell) = 2
    /\ ShortTiles.len < ShortenedTiles.len

-----------------------------------------------------------------------------
(* The default shortcut table and its shared modifiers *)

\* action_key: the keys of a mode whose action list is exactly `actions`
RECURSIVE action_key(_, _)
action_key(keymap, actions) ==
    IF keymap = <<>> THEN <<>>
    ELSE (IF Head(keymap).actions = actions THEN <<Head(keymap).key>> ELSE <<>>)
         \o action_key(Tail(keymap), actions)

\* mutant: without the second look at the list
to_char_without_fallback(kv) ==
    LET interesting == SelectSeq(kv, LAMBDA k : ~IsToNormalKey(k))
    IN  IF interesting # <<>> THEN interesting[1] ELSE NoKey

\* to_char: the first key that is not Enter, Space or Esc, else the first key
to_char(kv) ==
    LET interesting == SelectSeq(kv, LAMBDA k : ~IsToNormalKey(k))
    IN  IF interesting # <<>> THEN interesting[1]
        ELSE IF kv # <<>> THEN kv[1]
        ELSE NoKey

\* the input modes that have an entry in the table
TableModes == {"Locked", "Normal", "Pane", "Tab", "Resize", "Move", "Scroll", "Session"}

\* the KeyAction shown for a table mode other than Normal
TableAction(mode) == IF mode = "Locked" THEN "Lock"
                     ELSE IF mode = "Scroll" THEN "Search"
                     ELSE mode

\* the key of the current mode that performs exactly this action
ToKey(help, mode, action) == to_char(action_key(get_keybinds_for_mode(help, mode), <<action>>))

base_mode_normal_mode_indicators(help) ==
    [mode \in TableModes |->
        IF mode = "Normal"
        THEN <<KeyShortcut("Unselected", "Lock", ToKey(help, mode, SwitchToMode("Locked"))),
               KeyShortcut("UnselectedAlternate", "Pane", ToKey(help, mode, SwitchToMode("Pane"))),
               KeyShortcut("Unselected", "Tab", ToKey(help, mode, SwitchToMode("Tab"))),
               KeyShortcut("UnselectedAlternate", "Resize", ToKey(help, mode, SwitchToMode("Resize"))),
               KeyShortcut("Unselected", "Move", ToKey(help, mode, SwitchToMode("Move"))),
               KeyShortcut("UnselectedAlternate", "Search", ToKey(help, mode, SwitchToMode("Scroll"))),
               KeyShortcut("Unselected", "Session", ToKey(help, mode, SwitchToMode("Session"))),
               KeyShortcut("UnselectedAlternate", "Quit", ToKey(help, mode, Act("Quit")))>>
        ELSE <<KeyShortcut("Selected", TableAction(mode),
                           ToKey(help, mode, SwitchToMode("Normal")))>>]

\* Option<Vec<KeyModifier>>
None == [is_some |-> FALSE, modifiers |-> <<>>]

Some(modifiers) == [is_some |-> TRUE, modifiers |-> modifiers]

\* mutant: a shortcut without a key is passed over instead of ending the search
RECURSIVE common_modifiers_skipping_unbound(_, _)
common_modifiers_skipping_unbound(key_shortcuts, acc) ==
    IF key_shortcuts = <<>> THEN [ok |-> TRUE, modifiers |-> acc]
    ELSE IF Head(key_shortcuts).key = NoKey
    THEN common_modifiers_skipping_unbound(Tail(key_shortcuts), acc)
    ELSE common_modifiers_skipping_unbound(Tail(key_shortcuts),
                                           acc \cap Head(key_shortcuts).key.key_modifiers)

\* the inner loop: intersect the modifiers of every key; FALSE once a key is missing
RECURSIVE common_modifiers_for_mode(_, _)
common_modifiers_for_mode(key_shortcuts, acc) ==
    IF key_shortcuts = <<>> THEN [ok |-> TRUE, modifiers |-> acc]
    ELSE IF Head(key_shortcuts).key = NoKey THEN [ok |-> FALSE, modifiers |-> {}]
    ELSE common_modifiers_for_mode(Tail(key_shortcuts),
                                   acc \cap Head(key_shortcuts).key.key_modifiers)

\* mutant: the loop over the modes ends after the first mode of the map
all_modes_loop_first_mode_only(key_shortcuts, order, common_modifiers) ==
    LET shortcuts == key_shortcuts[Head(order)]
    IN  IF shortcuts = <<>> \/ shortcuts[1].key = NoKey
        THEN [ok |-> FALSE, modifiers |-> {}]
        ELSE LET for_mode == common_modifiers_for_mode(shortcuts,
                                                       shortcuts[1].key.key_modifiers)
             IN  IF ~for_mode.ok THEN [ok |-> FALSE, modifiers |-> {}]
                 ELSE [ok |-> TRUE, modifiers |-> common_modifiers \cap for_mode.modifiers]

\* the outer loop over the modes, in the order the map hands them out
RECURSIVE all_modes_loop(_, _, _)
all_modes_loop(key_shortcuts, order, common_modifiers) ==
    IF order = <<>> THEN [ok |-> TRUE, modifiers |-> common_modifiers]
    ELSE LET shortcuts == key_shortcuts[Head(order)]
         IN  IF shortcuts = <<>> \/ shortcuts[1].key = NoKey
             THEN [ok |-> FALSE, modifiers |-> {}]
             ELSE LET for_mode == common_modifiers_for_mode(shortcuts,
                                                            shortcuts[1].key.key_modifiers)
                  IN  IF ~for_mode.ok THEN [ok |-> FALSE, modifiers |-> {}]
                      ELSE all_modes_loop(key_shortcuts, Tail(order),
                                          common_modifiers \cap for_mode.modifiers)

\* common_modifiers_in_all_modes; `order` is the iteration order of the HashMap
common_modifiers_in_all_modes(key_shortcuts, order) ==
    IF order = <<>> \/ key_shortcuts[order[1]] = <<>>
       \/ key_shortcuts[order[1]][1].key = NoKey
    THEN None
    ELSE LET all == all_modes_loop(key_shortcuts, order,
                                   key_shortcuts[order[1]][1].key.key_modifiers)
         IN  IF ~all.ok \/ all.modifiers = {} THEN None
             ELSE Some(SortedMods(all.modifiers))

\* the modes the loop gets to: it stops in the first one that returns
RECURSIVE modes_visited(_, _)
modes_visited(key_shortcuts, order) ==
    IF order = <<>> THEN <<>>
    ELSE LET shortcuts == key_shortcuts[Head(order)]
         IN  <<Head(order)>>
             \o (IF shortcuts = <<>> \/ \E i \in 1..Len(shortcuts) : shortcuts[i].key = NoKey
                 THEN <<>>
                 ELSE modes_visited(key_shortcuts, Tail(order)))

\* what common_modifiers_in_all_modes writes to standard error with eprintln!:
\* the map, then the start set and one line per visited mode
eprintln(key_shortcuts, order) ==
    <<"common_modifiers_in_all_modes:">>
    \o (IF order = <<>> \/ key_shortcuts[order[1]] = <<>>
           \/ key_shortcuts[order[1]][1].key = NoKey
        THEN <<>>
        ELSE <<"common_modifiers start:">>
             \o [i \in 1..Len(modes_visited(key_shortcuts, order)) |->
                    "common_modifiers mode"])

render_common_modifiers(mode_info, common_modifiers, line_part_to_render, separator) ==
    LET prefix_text == BannerText(mode_info, common_modifiers)
    IN  [part |-> line_part_to_render.part
                  \o Paint("superkey", "prefix", prefix_text)
                  \o Paint("superkey", "suffix_separator", separator),
         len |-> line_part_to_render.len + CharsCount(prefix_text) + CharsCount(separator)]

-----------------------------------------------------------------------------
(* Segments rendered by the second-line helpers.  A hint is laid out as the *)
(* mode-indicator tiles are: separator, " <" key "> ", label, " ",          *)
(* separator, the leading separator left out on an empty line; a hint       *)
(* without a key renders nothing.                                           *)

KeysText(keys) == Join([i \in 1..Len(keys) |-> KeyText(keys[i])], <<"|">>)

ShortcutSegment(profile, text, keys, separator, first) ==
    IF keys = <<>> THEN LinePartDefault
    ELSE LET start == IF first THEN <<>> ELSE separator
         IN  [part |-> Paint(profile, "prefix_separator", start)
                       \o Paint(profile, "char_left_separator", <<" ", "<">>)
                       \o Paint(profile, "char_shortcut", KeysText(keys))
                       \o Paint(profile, "char_right_separator", <<">", " ">>)
                       \o Paint(profile, "styled_text", text \o <<" ">>)
                       \o Paint(profile, "suffix_separator", separator),
              len |-> CharsCount(start) + 2 + CharsCount(KeysText(keys)) + 2
                      + CharsCount(text) + 1 + CharsCount(separator)]

\* add_shortcut: the line with the hint appended
add_shortcut(linepart, text, keys, separator) ==
    append(linepart, ShortcutSegment("unselected", text, keys, separator, linepart.len = 0))

\* add_shortcut_selected: the line with the hint appended, in the selected style
add_shortcut_selected(linepart, text, keys, separator) ==
    append(linepart, ShortcutSegment("selected", text, keys, separator, linepart.len = 0))

\* add_shortcut_with_inline_key: the hint alone
add_shortcut_with_inline_key(linepart, text, keys, is_selected, separator) ==
    ShortcutSegment(IF is_selected THEN "selected" ELSE "unselected", text, keys,
                    separator, linepart.len = 0)

\* add_keygroup_separator: a fixed-width divider between key groups
add_keygroup_separator(help) ==
    [part |-> Paint("unselected", "styled_text", <<" ", "|", " ">>), len |-> 3]

\* style_key_with_modifier: the keys of a group between angle brackets
style_key_with_modifier(keys) ==
    IF keys = <<>> THEN LinePartDefault
    ELSE [part |-> Paint("unselected", "char_shortcut", <<"<">> \o KeysText(keys) \o <<">">>),
          len |-> CharsCount(KeysText(keys)) + 2]

\* action_key_group: the keys bound to any of the action lists, group by group
RECURSIVE action_key_group(_, _)
action_key_group(keymap, actions) ==
    IF actions = <<>> THEN <<>>
    ELSE action_key(keymap, Head(actions)) \o action_key_group(keymap, Tail(actions))

-----------------------------------------------------------------------------
(* Swap layout status *)

\* bytes of the UTF-8 encoding of a character
Utf8Len(c) == IF c = "{e'}" THEN 2 ELSE IF c = "{larr}" THEN 3 ELSE 1

RECURSIVE ByteLen(_)
ByteLen(str) == IF str = <<>> THEN 0 ELSE Utf8Len(Head(str)) + ByteLen(Tail(str))

\* u8::to_ascii_uppercase on the letters used in layout names
AsciiUpper(c) == CASE c = "a" -> "A" [] c = "b" -> "B" [] OTHER -> c

make_ascii_uppercase(str) == [i \in 1..Len(str) |-> AsciiUpper(str[i])]

swap_layout_keycode(mode_info) ==
    style_key_with_modifier(
        action_key_group(get_mode_keybinds(mode_info),
                         <<<<Act("PreviousSwapLayout")>>, <<Act("NextSwapLayout")>>>>))

\* Option<String> and Option<LinePart>
NoName == [is_some |-> FALSE, value |-> <<>>]

SomeName(str) == [is_some |-> TRUE, value |-> str]

NoLinePart == [is_some |-> FALSE, value |-> LinePartDefault]

SomeLinePart(lp) == [is_some |-> TRUE, value |-> lp]

\* mutant: a damaged layout is marked in the text as well
style_swap_layout_indicator_marking_damage(style_name, separator, swap_layout_name) ==
    Paint(style_name, "prefix_separator", separator)
    \o Paint(style_name, "styled_text",
             swap_layout_name \o (IF style_name = "unselected" THEN <<"*">> ELSE <<>>))
    \o Paint(style_name, "suffix_separator", separator)

\* macro style_swap_layout_indicator!, formatted into swap_layout_indicator
style_swap_layout_indicator(style_name, separator, swap_layout_name) ==
    Paint(style_name, "prefix_separator", separator)
    \o Paint(style_name, "styled_text", swap_layout_name)
    \o Paint(style_name, "suffix_separator", separator)

\* mutant: the short form is offered in every mode
ShortFormAllowed_in_every_mode(mode_info) == TRUE

\* mode_info.mode != InputMode::Locked
ShortFormAllowed(mode_info) == mode_info.mode # "Locked"

swap_layout_status(max_len, swap_layout_name_opt, is_swap_layout_damaged, mode_info, separator) ==
    IF ~swap_layout_name_opt.is_some THEN NoLinePart
    ELSE LET swap_layout_name ==
                 make_ascii_uppercase(<<" ">> \o swap_layout_name_opt.value \o <<" ">>)
             keycode == swap_layout_keycode(mode_info)
             swap_layout_name_len == ByteLen(swap_layout_name) + 2
             style == IF is_swap_layout_damaged THEN "unselected" ELSE "selected"
             swap_layout_indicator ==
                 style_swap_layout_indicator(style, separator, swap_layout_name)
             part == keycode.part \o swap_layout_indicator
             full_len == keycode.len + swap_layout_name_len
             short_len == swap_layout_name_len + 1
         IN  IF full_len <= max_len
             THEN SomeLinePart([part |-> part, len |-> full_len])
             ELSE IF short_len <= max_len /\ ShortFormAllowed(mode_info)
             THEN SomeLinePart([part |-> swap_layout_indicator, len |-> short_len])
             ELSE NoLinePart

\* Option<&TabInfo>
NoTabInfo == [is_some |-> FALSE, active_swap_layout_name |-> NoName,
              is_swap_layout_dirty |-> FALSE]

TabInfo(name, dirty) == [is_some |-> TRUE, active_swap_layout_name |-> name,
                         is_swap_layout_dirty |-> dirty]

-----------------------------------------------------------------------------
(* Secondary info and the mode indicators *)

\* .iter().find(preferred).or_else(first), `found` being the preferred keys:
\* at most one key to display
FindOrFirst(found, keys) ==
    IF found # <<>> THEN <<found[1]>>
    ELSE IF keys # <<>> THEN <<keys[1]>>
    ELSE <<>>

is_key_with_alt_modifier(k, bare_key) == k.bare_key = bare_key /\ "Alt" \in k.key_modifiers

secondary_keybinds(help, separator) ==
    LET binds == get_mode_keybinds(help)
        Display(action, bare_key) ==
            FindOrFirst(SelectSeq(action_key(binds, <<Act(action)>>),
                                  LAMBDA k : is_key_with_alt_modifier(k, bare_key)),
                        action_key(binds, <<Act(action)>>))
        new_pane == add_shortcut(LinePartDefault, <<"N", "e", "w", " ", "P", "a", "n", "e">>,
                                 Display("NewPane", "n"), separator)
        move_focus_shortcuts ==
            Display("MoveFocusOrTab(Left)", "Left") \o Display("MoveFocus(Down)", "Down")
            \o Display("MoveFocus(Up)", "Up") \o Display("MoveFocusOrTab(Right)", "Right")
    IN  add_shortcut(new_pane,
                     <<"C", "h", "a", "n", "g", "e", " ", "F", "o", "c", "u", "s">>,
                     move_focus_shortcuts, separator)

\* usize::saturating_sub
saturating_sub(a, b) == IF a >= b THEN a - b ELSE 0

\* mutant: the blanks are pushed but not counted
RECURSIVE Pad_uncounted(_, _)
Pad_uncounted(current_line, remaining_space) ==
    IF remaining_space = 0 THEN current_line
    ELSE Pad_uncounted([part |-> current_line.part \o Paint("superkey", "prefix", <<" ">>),
                        len |-> current_line.len],
                       remaining_space - 1)

\* for _ in 0..remaining_space: one painted blank, one more counted cell
RECURSIVE Pad(_, _)
Pad(current_line, remaining_space) ==
    IF remaining_space = 0 THEN current_line
    ELSE Pad([part |-> current_line.part \o Paint("superkey", "prefix", <<" ">>),
              len |-> current_line.len + 1],
             remaining_space - 1)

\* the secondary segment: extra hints, then the swap layout status if there is one
SecondaryInfo(help, tab_info, max_len, separator) ==
    LET secondary_info == append(LinePartDefault, secondary_keybinds(help, separator))
        swap_layout_indicator ==
            IF tab_info.is_some
            THEN swap_layout_status(max_len, tab_info.active_swap_layout_name,
                                    tab_info.is_swap_layout_dirty, help, separator)
            ELSE NoLinePart
    IN  IF swap_layout_indicator.is_some
        THEN append(secondary_info, swap_layout_indicator.value)
        ELSE secondary_info

\* mutant: no cell is kept free at the end of the line
render_secondary_info_filling_the_line(help, tab_info, max_len, separator, current_line) ==
    LET secondary_info == SecondaryInfo(help, tab_info, max_len, separator)
        remaining_space ==
            saturating_sub(saturating_sub(max_len, current_line.len), secondary_info.len)
    IN  append(Pad(current_line, remaining_space), secondary_info)

render_secondary_info(help, tab_info, max_len, separator, current_line) ==
    LET secondary_info == SecondaryInfo(help, tab_info, max_len, separator)
        remaining_space ==
            saturating_sub(saturating_sub(saturating_sub(max_len, current_line.len),
                                          secondary_info.len), 1)
    IN  append(Pad(current_line, remaining_space), secondary_info)

\* Some(modifiers): one hint per shortcut of the mode, its key without the modifiers
RECURSIVE InlineKeyShortcuts(_, _, _, _)
InlineKeyShortcuts(keys, modifiers, separator, line_part_to_render) ==
    IF keys = <<>> THEN line_part_to_render
    ELSE LET key == Head(keys)
             shown == IF key.key = NoKey THEN <<>>
                      ELSE <<strip_common_modifiers(key.key, modifiers)>>
         IN  InlineKeyShortcuts(Tail(keys), modifiers, separator,
                 append(line_part_to_render,
                        add_shortcut_with_inline_key(line_part_to_render, full_text(key),
                                                     shown, key.mode = "Selected",
                                                     separator)))

\* None: one hint per shortcut of the mode, the key as it is bound
RECURSIVE PlainShortcuts(_, _, _)
PlainShortcuts(keys, separator, line_part_to_render) ==
    IF keys = <<>> THEN line_part_to_render
    ELSE LET key == Head(keys)
             shown == IF key.key = NoKey THEN <<>> ELSE <<key.key>>
         IN  PlainShortcuts(Tail(keys), separator,
                 IF key.mode = "Selected"
                 THEN add_shortcut_selected(line_part_to_render, full_text(key), shown,
                                            separator)
                 ELSE add_shortcut(line_part_to_render, full_text(key), shown, separator))

\* mutant: the banner of the shared modifiers is rendered before the table is
\* asked for the current mode
ModeKeyIndicators_banner_in_every_mode(help, separator, line_part_to_render, order) ==
    LET default_keys == base_mode_normal_mode_indicators(help)
        common == common_modifiers_in_all_modes(default_keys, order)
        shortcuts == IF help.mode \in DOMAIN default_keys THEN default_keys[help.mode]
                     ELSE <<>>
    IN  IF common.is_some
        THEN InlineKeyShortcuts(
                 [i \in 1..Len(shortcuts) |->
                     [shortcuts[i] EXCEPT
                         !.key = IF @ = NoKey THEN NoKey
                                 ELSE strip_common_modifiers(@, common.modifiers)]],
                 common.modifiers, separator,
                 render_common_modifiers(help, common.modifiers, line_part_to_render,
                                         separator))
        ELSE PlainShortcuts(shortcuts, separator, line_part_to_render)

\* the banner and the hints of the current mode, before the key-group divider
ModeKeyIndicators(help, separator, line_part_to_render, order) ==
    LET default_keys == base_mode_normal_mode_indicators(help)
        common == common_modifiers_in_all_modes(default_keys, order)
    IN  IF help.mode \notin DOMAIN default_keys THEN line_part_to_render
        ELSE IF common.is_some
        THEN InlineKeyShortcuts(
                 [i \in 1..Len(default_keys[help.mode]) |->
                     [default_keys[help.mode][i] EXCEPT
                         !.key = IF @ = NoKey THEN NoKey
                                 ELSE strip_common_modifiers(@, common.modifiers)]],
                 common.modifiers, separator,
                 render_common_modifiers(help, common.modifiers, line_part_to_render,
                                         separator))
        ELSE PlainShortcuts(default_keys[help.mode], separator, line_part_to_render)

\* mutant: the key-group divider is tried in the base modes too
render_mode_key_indicators_divider_in_every_mode(help, max_len, separator, line_part_to_render, order) ==
    LET indicators == ModeKeyIndicators(help, separator, line_part_to_render, order)
        divider == add_keygroup_separator(help)
    IN  IF indicators.len + divider.len <= max_len
        THEN append(indicators, divider)
        ELSE indicators

render_mode_key_indicators(help, max_len, separator, line_part_to_render, order) ==
    LET indicators == ModeKeyIndicators(help, separator, line_part_to_render, order)
        divider == add_keygroup_separator(help)
    IN  IF help.mode # "Normal" /\ help.mode # "Locked"
           /\ indicators.len + divider.len <= max_len
        THEN append(indicators, divider)
        ELSE indicators

\* keybinds(help, "quicknav", max_len): the quick-navigation hints, of some width
keybinds(quicknav_width) ==
    [part |-> Paint("unselected", "styled_text", [i \in 1..quicknav_width |-> "~"]),
     len |-> quicknav_width]

-----------------------------------------------------------------------------
(* Inputs of first_line *)

\* the three Normal-mode bindings of tests::first_line_default_layout_shared_super
NormalOnlyCtrl ==
    [NoKeybinds EXCEPT
        !["Normal"] = <<Bind(Key("a", {"Ctrl"}), <<SwitchToMode("Pane")>>),
                        Bind(Key("b", {"Ctrl"}), <<SwitchToMode("Resize")>>),
                        Bind(Key("c", {"Ctrl"}), <<SwitchToMode("Move")>>)>>]

\* every mode of the table switches with a Ctrl key; hints and layouts on Alt
AllCtrl ==
    [m \in InputModes |->
        IF m = "Normal"
        THEN <<Bind(Key("g", {"Ctrl"}), <<SwitchToMode("Locked")>>),
               Bind(Key("p", {"Ctrl"}), <<SwitchToMode("Pane")>>),
               Bind(Key("t", {"Ctrl"}), <<SwitchToMode("Tab")>>),
               Bind(Key("n", {"Ctrl"}), <<SwitchToMode("Resize")>>),
               Bind(Key("h", {"Ctrl"}), <<SwitchToMode("Move")>>),
               Bind(Key("s", {"Ctrl"}), <<SwitchToMode("Scroll")>>),
               Bind(Key("o", {"Ctrl"}), <<SwitchToMode("Session")>>),
               Bind(Key("q", {"Ctrl"}), <<Act("Quit")>>),
               Bind(Key("n", {"Alt"}), <<Act("NewPane")>>),
               Bind(Key("[", {"Alt"}), <<Act("PreviousSwapLayout")>>),
               Bind(Key("]", {"Alt"}), <<Act("NextSwapLayout")>>)>>
        ELSE IF m = "Locked"
        THEN <<Bind(Key("g", {"Ctrl"}), <<SwitchToMode("Normal")>>),
               Bind(Key("[", {"Alt"}), <<Act("PreviousSwapLayout")>>)>>
        ELSE IF m \in TableModes
        THEN <<Bind(Key("Enter", {}), <<SwitchToMode("Normal")>>),
               Bind(Key("x", {"Ctrl"}), <<SwitchToMode("Normal")>>)>>
        ELSE <<>>]

\* as AllCtrl, but the other modes go back to Normal on Enter and Esc alone
BackOnEnter ==
    [m \in InputModes |->
        IF m \in TableModes \ {"Normal", "Locked"}
        THEN <<Bind(Key("Enter", {}), <<SwitchToMode("Normal")>>),
               Bind(Key("Esc", {}), <<SwitchToMode("Normal")>>)>>
        ELSE AllCtrl[m]]

FirstLineHelps(mode) ==
    {ModeInfo(mode, NoKeybinds, TRUE), ModeInfo(mode, NormalOnlyCtrl, TRUE),
     ModeInfo(mode, AllCtrl, TRUE), ModeInfo(mode, AllCtrl, FALSE),
     ModeInfo(mode, BackOnEnter, FALSE)}

FirstLineSeparators == {<<>>, <<">">>}

\* two iteration orders of the shortcut table
MapOrders == {<<"Locked", "Normal", "Pane", "Tab", "Resize", "Move", "Scroll", "Session">>,
              <<"Session", "Scroll", "Move", "Resize", "Tab", "Pane", "Normal", "Locked">>}

\* mutant: Locked is treated as any other mode
BaseModes_normal_only == {"Normal"}

\* InputMode::Normal | InputMode::Locked
BaseModes == {"Normal", "Locked"}

\* the tab: none, or one with the swap layout "ab", clean or dirty
TabInfos == {NoTabInfo, TabInfo(SomeName(<<"a", "b">>), FALSE),
             TabInfo(SomeName(<<"a", "b">>), TRUE)}

QuicknavWidths == {0, 6}

-----------------------------------------------------------------------------
(* first_line, segment by segment *)

FirstLine ==
    /\ op = "init"
    /\ \E mode \in InputModes, max_len \in 0..MaxLen,
          separator \in FirstLineSeparators, order \in MapOrders :
        \E help \in FirstLineHelps(mode),
           tab_info \in IF mode \in BaseModes THEN TabInfos
                        ELSE {TabInfo(SomeName(<<"a", "b">>), FALSE)},
           quicknav_width \in IF mode \in BaseModes THEN {6} ELSE QuicknavWidths :
            /\ op' = "first_line"
            /\ stderr' = <<>>
            /\ args' = [NoArgs EXCEPT !.help = help, !.tab_info = tab_info,
                                      !.max_len = max_len, !.separator = separator,
                                      !.order = order, !.quicknav_width = quicknav_width]
            /\ line' = LinePartDefault
            /\ ret' = LinePartDefault

RenderModeKeyIndicators ==
    /\ op = "first_line"
    /\ op' = "render_mode_key_indicators"
    /\ stderr' = stderr \o eprintln(base_mode_normal_mode_indicators(args.help),
                                   args.order)
    /\ line' = render_mode_key_indicators(args.help, args.max_len, args.separator, line,
                                          args.order)
    /\ UNCHANGED <<args, ret>>

RenderSecondaryInfo ==
    /\ op = "render_mode_key_indicators"
    /\ args.help.mode \in BaseModes
    /\ line.len < args.max_len
    /\ op' = "render_secondary_info"
    /\ line' = render_secondary_info(args.help, args.tab_info, args.max_len,
                                     args.separator, line)
    /\ UNCHANGED <<args, ret, stderr>>

AppendQuicknav ==
    /\ op = "render_mode_key_indicators"
    /\ args.help.mode \notin BaseModes
    /\ line.len + keybinds(args.quicknav_width).len <= args.max_len
    /\ op' = "quicknav"
    /\ line' = append(line, keybinds(args.quicknav_width))
    /\ UNCHANGED <<args, ret, stderr>>

\* neither segment is added: no budget left, or the quick navigation does not fit
SkipSecondSegment ==
    /\ op = "render_mode_key_indicators"
    /\ IF args.help.mode \in BaseModes
       THEN ~(line.len < args.max_len)
       ELSE ~(line.len + keybinds(args.quicknav_width).len <= args.max_len)
    /\ op' = "skipped"
    /\ UNCHANGED <<args, line, ret, stderr>>

ReturnFirstLine ==
    /\ op \in {"render_secondary_info", "quicknav", "skipped"}
    /\ op' = "first_line_returned"
    /\ ret' = line
    /\ UNCHANGED <<args, line, stderr>>

NextFirstLine ==
    \/ FirstLine
    \/ RenderModeKeyIndicators
    \/ RenderSecondaryInfo
    \/ AppendQuicknav
    \/ SkipSecondSegment
    \/ ReturnFirstLine

SpecFirstLine == Init /\ [][NextFirstLine]_vars

-----------------------------------------------------------------------------
(* Properties of first_line *)

\* C1: for every mode snapshot, tab info, separator and max_len, the LinePart
\* returned by first_line has len <= max_len.
C1_WithinBudget ==
    op = "first_line_returned" => ret.len <= args.max_len

\* the line after the first step of first_line
ModeIndicatorSegment ==
    render_mode_key_indicators(args.help, args.max_len, args.separator, LinePartDefault,
                               args.order)

QuicknavSegment == keybinds(args.quicknav_width)

\* C15: first_line renders the mode indicators first; in Normal and Locked mode
\* it then appends the secondary info only when the line so far is shorter than
\* max_len; in every other mode it appends the quick navigation only when
\* line.len + quicknav.len <= max_len, and leaves the line as it was otherwise.
\* The two segments never appear in one line.
C15_SecondSegmentByMode ==
    op = "first_line_returned" =>
        IF args.help.mode \in {"Normal", "Locked"}
        THEN ret = IF ModeIndicatorSegment.len < args.max_len
                   THEN render_secondary_info(args.help, args.tab_info, args.max_len,
                                              args.separator, ModeIndicatorSegment)
                   ELSE ModeIndicatorSegment
        ELSE ret = IF ModeIndicatorSegment.len + QuicknavSegment.len <= args.max_len
                   THEN append(ModeIndicatorSegment, QuicknavSegment)
                   ELSE ModeIndicatorSegment

\* a mode other than the base modes with room left, but not for the quick navigation
C15_Witness ==
    /\ op = "first_line_returned"
    /\ args.help.mode = "Pane"
    /\ 0 < ModeIndicatorSegment.len
    /\ ModeIndicatorSegment.len < args.max_len
    /\ QuicknavSegment.len = 6
    /\ ModeIndicatorSegment.len + QuicknavSegment.len > args.max_len
    /\ ret = ModeIndicatorSegment

\* C17: a render call has no observable side effect; in particular first_line
\* and the functions it calls write nothing to standard error.
C17_NothingWrittenToStderr ==
    op = "first_line_returned" => stderr = <<>>

\* the secondary segment of the call and the number of blank cells due before it
SecondarySegment == SecondaryInfo(args.help, args.tab_info, args.max_len, args.separator)

PaddingDue ==
    LET difference == args.max_len - ModeIndicatorSegment.len - SecondarySegment.len - 1
    IN  IF difference > 0 THEN difference ELSE 0

C20_WitnessSaturated ==
    /\ op = "render_secondary_info"
    /\ SecondarySegment.len > 0
    /\ args.max_len - ModeIndicatorSegment.len - SecondarySegment.len - 1 < 0
    /\ line = append(ModeIndicatorSegment, SecondarySegment)

C28_WitnessNoPadding ==
    /\ op = "first_line_returned"
    /\ args.help.mode \in {"Normal", "Locked"}
    /\ ModeIndicatorSegment.len > 0
    /\ ModeIndicatorSegment.len + SecondarySegment.len + 1 = args.max_len
    /\ ret = append(ModeIndicatorSegment, SecondarySegment)

\* the same call of render_mode_key_indicators with another budget
WithBudget(max_len) ==
    render_mode_key_indicators(args.help, max_len, args.separator, LinePartDefault,
                               args.order)

\* the banner and the hints of the call, which are built without any budget
IndicatorsOfCall ==
    ModeKeyIndicators(args.help, args.separator, LinePartDefault, args.order)

C29_WitnessNoDivider ==
    /\ op = "render_mode_key_indicators"
    /\ args.help.mode = "Pane"
    /\ 0 < line.len
    /\ line.len <= args.max_len
    /\ line = IndicatorsOfCall
    /\ WithBudget(MaxLen) = append(line, add_keygroup_separator(args.help))

\* the shared modifiers of the table of the call
TableModifiers ==
    common_modifiers_in_all_modes(base_mode_normal_mode_indicators(args.help), args.order)

\* C30: for an input mode without an entry in the default shortcut table
\* (Search, EnterSearch, RenameTab, RenamePane, Prompt, Tmux),
\* render_mode_key_indicators appends neither the banner of the shared modifiers
\* nor any shortcut tile, even when all table modes share a modifier; the only
\* thing it may append is the key-group divider.
C30_ModesOutsideTheTableGetTheDividerOnly ==
    (/\ op = "render_mode_key_indicators"
     /\ args.help.mode \in {"Search", "EnterSearch", "RenameTab", "RenamePane",
                            "Prompt", "Tmux"}) =>
        line \in {LinePartDefault,
                  append(LinePartDefault, add_keygroup_separator(args.help))}

\* Tmux mode with a modifier shared by every mode of the table: the divider alone
C30_Witness ==
    /\ op = "render_mode_key_indicators"
    /\ args.help.mode = "Tmux"
    /\ TableModifiers.is_some
    /\ line = append(LinePartDefault, add_keygroup_separator(args.help))
    /\ line.len > 0

\* the shortcuts of the current mode, the banner of its shared modifiers and
\* the long and the short rendering of key_indicators for them
CurrentModeShortcuts ==
    IF args.help.mode \in TableModes
    THEN base_mode_normal_mode_indicators(args.help)[args.help.mode]
    ELSE <<>>

CurrentModeShared == get_common_modifiers(mode_switch_keys(args.help))

CurrentModeBanner == superkey(args.separator, args.help, LinePartDefault).line

CurrentModeLong ==
    LongTier(CurrentModeShortcuts, args.separator, CurrentModeShared,
             CurrentModeBanner.len = 0, LinePartDefault)

CurrentModeShort ==
    ShortTier(CurrentModeShortcuts, args.separator, CurrentModeShared, LinePartDefault)

\* C3: when the long tiles of the current mode's shortcuts, with the banner, do
\* not fit max_len and the short tiles do, the line first_line returns starts
\* with the banner followed by the short tiles.
C3_FallsBackToShortTiles ==
    (/\ op = "first_line_returned"
     /\ CurrentModeShortcuts # <<>>
     /\ ~(CurrentModeBanner.len + CurrentModeLong.len < args.max_len)
     /\ CurrentModeBanner.len + CurrentModeShort.len < args.max_len)
        => IsPrefix(unstyle(append(CurrentModeBanner, CurrentModeShort).part),
                    unstyle(ret.part))

\* the line of tests::first_line_default_layout_shared_super for a separator:
\* the Ctrl banner and the long tiles of Pane, Resize and Move without Ctrl
SharedCtrlLine(separator) ==
    <<" ", "C", "t", "r", "l", " ", "+", " ">> \o separator
    \o separator \o <<" ", "<", "a", ">", " ", "P", "A", "N", "E", " ">> \o separator
    \o separator \o <<" ", "<", "b", ">", " ", "R", "E", "S", "I", "Z", "E", " ">>
    \o separator
    \o separator \o <<" ", "<", "c", ">", " ", "M", "O", "V", "E", " ">> \o separator

\* C4: in Normal mode, with the three mode switches of the current mode all on
\* Ctrl, no binding in any other mode and room for the whole line, first_line
\* starts the line with the Ctrl banner, once, followed by one long tile per
\* bound shortcut with Ctrl left out of the bracketed key.
C4_SharedModifierBanner ==
    (/\ op = "first_line_returned"
     /\ args.help = ModeInfo("Normal", NormalOnlyCtrl, TRUE)
     /\ Len(SharedCtrlLine(args.separator)) < args.max_len)
        => IsPrefix(SharedCtrlLine(args.separator), unstyle(ret.part))

-----------------------------------------------------------------------------
(* Calls of common_modifiers_in_all_modes *)

\* the modes a table handed to the analysis may hold
AnalysisModes == {"Locked", "Normal"}

AnalysisKeys == {NoKey, Key("a", {"Ctrl"}), Key("0", {"Ctrl", "Alt"}), Key("n", {"Alt"})}

AnalysisShortcutLists ==
    UNION {[1..n -> {KeyShortcut("Unselected", "Pane", k) : k \in AnalysisKeys}] :
              n \in 0..MaxKeys}

\* iteration orders of a map: every sequence of distinct modes
AnalysisOrders ==
    {<<>>} \cup {<<m>> : m \in AnalysisModes}
    \cup {o \in AnalysisModes \X AnalysisModes : o[1] # o[2]}

CommonModifiersInAllModes ==
    /\ op = "init"
    /\ \E order \in AnalysisOrders :
        \E key_shortcuts \in [{order[i] : i \in 1..Len(order)} -> AnalysisShortcutLists] :
            /\ op' = "common_modifiers_in_all_modes"
            /\ stderr' = eprintln(key_shortcuts, order)
            /\ args' = [NoArgs EXCEPT !.key_shortcuts = key_shortcuts, !.order = order]
            /\ ret' = common_modifiers_in_all_modes(key_shortcuts, order)
            /\ line' = LinePartDefault

NextModifiers == CommonModifiersInAllModes

SpecModifiers == Init /\ [][NextModifiers]_vars

\* every mode of the map has a shortcut and every shortcut has a key
EveryShortcutBound ==
    \A i \in 1..Len(args.order) :
        /\ args.key_shortcuts[args.order[i]] # <<>>
        /\ \A j \in 1..Len(args.key_shortcuts[args.order[i]]) :
               args.key_shortcuts[args.order[i]][j].key # NoKey

\* the modifiers held by every key of every mode
ModifiersOfEveryKey ==
    {m \in KeyModifiers :
        \A i \in 1..Len(args.order) :
            \A j \in 1..Len(args.key_shortcuts[args.order[i]]) :
                m \in args.key_shortcuts[args.order[i]][j].key.key_modifiers}

\* C11: common_modifiers_in_all_modes returns some modifiers exactly when the map
\* is not empty, every mode has a shortcut, every shortcut has a key and the
\* keys' modifier sets have a non-empty intersection, which is then the result;
\* in every other case it returns None, never a partial set.
C11_CommonModifiersAreTheIntersection ==
    op = "common_modifiers_in_all_modes" =>
        IF args.order # <<>> /\ EveryShortcutBound /\ ModifiersOfEveryKey # {}
        THEN /\ ret.is_some
             /\ {ret.modifiers[i] : i \in 1..Len(ret.modifiers)} = ModifiersOfEveryKey
             /\ Len(ret.modifiers) = Cardinality(ModifiersOfEveryKey)
        ELSE ret = None

C11_Witness ==
    /\ op = "common_modifiers_in_all_modes"
    /\ args.order = <<"Normal", "Locked">>
    /\ args.key_shortcuts["Normal"] = <<KeyShortcut("Unselected", "Pane", Key("n", {"Alt"}))>>
    /\ args.key_shortcuts["Locked"] =
           <<KeyShortcut("Unselected", "Pane", Key("0", {"Ctrl", "Alt"})),
             KeyShortcut("Unselected", "Pane", Key("n", {"Alt"}))>>
    /\ ret = Some(<<"Alt">>)

\* the orders in which the same map can hand out its modes
IterationOrders ==
    {o \in AnalysisOrders :
        /\ Len(o) = Len(args.order)
        /\ {o[i] : i \in 1..Len(o)} = {args.order[i] : i \in 1..Len(args.order)}}

\* C27: the result of common_modifiers_in_all_modes does not depend on the order
\* in which the modes of the map are iterated: every iteration order of the same
\* map gives the same answer, None or the same modifiers in the same order.
C27_IterationOrderDoesNotMatter ==
    op = "common_modifiers_in_all_modes" =>
        \A order \in IterationOrders :
            common_modifiers_in_all_modes(args.key_shortcuts, order) = ret

\* two modes that start the search from different modifier sets and share one
C27_Witness ==
    /\ op = "common_modifiers_in_all_modes"
    /\ Len(args.order) = 2
    /\ Cardinality(IterationOrders) = 2
    /\ ret.is_some
    /\ args.key_shortcuts[args.order[1]][1].key.key_modifiers
           # args.key_shortcuts[args.order[2]][1].key.key_modifiers

-----------------------------------------------------------------------------
(* Calls of mode_switch_keys *)

SwitchKeys == {Key("a", {"Ctrl"}), Key("b", {}), Key("Space", {}),
               Key("Enter", {"Alt"}), Key("Esc", {"Ctrl"})}

\* action lists: none, a shown mode, a mode that is not shown, Quit, and lists
\* whose first action decides
SwitchActionLists ==
    {<<>>, <<SwitchToMode("Pane")>>, <<SwitchToMode("Search")>>, <<Act("Quit")>>,
     <<Act("NewPane"), SwitchToMode("Pane")>>, <<SwitchToMode("Normal"), Act("NewPane")>>}

SwitchBinds == {Bind(k, a) : k \in SwitchKeys, a \in SwitchActionLists}

SwitchKeymaps == UNION {[1..n -> SwitchBinds] : n \in 0..MaxKeys}

ModeSwitchKeys ==
    /\ op = "init"
    /\ \E mode \in {"Normal", "Pane"}, keymap \in SwitchKeymaps :
        LET mode_info == ModeInfo(mode, [NoKeybinds EXCEPT ![mode] = keymap], TRUE)
        IN  /\ op' = "mode_switch_keys"
            /\ stderr' = <<>>
            /\ args' = [NoArgs EXCEPT !.help = mode_info]
            /\ ret' = mode_switch_keys(mode_info)
            /\ line' = LinePartDefault

NextSwitchKeys == ModeSwitchKeys

SpecSwitchKeys == Init /\ [][NextSwitchKeys]_vars

\* the first action of the binding is Quit or a switch to one of the eight modes
FirstActionIsShown(b) ==
    /\ b.actions # <<>>
    /\ b.actions[1] \in {Act("Quit")} \cup {SwitchToMode(m) :
           m \in {"Normal", "Locked", "Pane", "Tab", "Resize", "Move", "Scroll", "Session"}}

ReturnsToNormalByDefault(key) == key.bare_key \in {"Space", "Enter", "Esc"}

CurrentKeymap == args.help.keybinds[args.help.mode]

\* the bindings of the current mode that are to be returned, in keymap order
ShownBinds ==
    SelectSeq(CurrentKeymap,
              LAMBDA b : FirstActionIsShown(b) /\ ~ReturnsToNormalByDefault(b.key))

\* C12: mode_switch_keys returns no key on Space, Enter or Esc, whatever its
\* modifiers; it returns, in order and with duplicates, the keys whose first
\* action is Quit or SwitchToMode to Normal, Locked, Pane, Tab, Resize, Move,
\* Scroll or Session; keys without actions are ignored.
C12_ModeSwitchKeysKept ==
    op = "mode_switch_keys" =>
        /\ \A i \in 1..Len(ret) : ~ReturnsToNormalByDefault(ret[i])
        /\ ret = [i \in 1..Len(ShownBinds) |-> ShownBinds[i].key]

C12_Witness ==
    /\ op = "mode_switch_keys"
    /\ CurrentKeymap = <<Bind(Key("a", {"Ctrl"}), <<SwitchToMode("Normal"), Act("NewPane")>>),
                         Bind(Key("a", {"Ctrl"}), <<Act("Quit")>>)>>
    /\ ret = <<Key("a", {"Ctrl"}), Key("a", {"Ctrl"})>>

-----------------------------------------------------------------------------
(* Calls of swap_layout_status *)

\* no layout, an empty name, an ASCII name and a name with a two-byte character
SwapLayoutNames == {NoName, SomeName(<<>>), SomeName(<<"a", "b">>), SomeName(<<"{e'}">>)}

\* the current mode's bindings: no swap-layout key, or one for each direction
SwapLayoutKeymaps ==
    {<<>>,
     <<Bind(Key("[", {"Alt"}), <<Act("PreviousSwapLayout")>>),
       Bind(Key("]", {"Alt"}), <<Act("NextSwapLayout")>>)>>}

SwapLayoutHelps ==
    {ModeInfo(mode, [NoKeybinds EXCEPT ![mode] = keymap], TRUE) :
        mode \in {"Normal", "Locked", "Pane"}, keymap \in SwapLayoutKeymaps}

SwapLayoutStatus ==
    /\ op = "init"
    /\ \E max_len \in 0..MaxBudget, swap_layout_name \in SwapLayoutNames,
          is_swap_layout_damaged \in BOOLEAN, mode_info \in SwapLayoutHelps,
          separator \in Separators :
        /\ op' = "swap_layout_status"
        /\ stderr' = <<>>
        /\ args' = [NoArgs EXCEPT !.max_len = max_len, !.help = mode_info,
                                  !.separator = separator,
                                  !.tab_info = TabInfo(swap_layout_name,
                                                       is_swap_layout_damaged)]
        /\ ret' = swap_layout_status(max_len, swap_layout_name, is_swap_layout_damaged,
                                     mode_info, separator)
        /\ line' = LinePartDefault

NextSwapLayout == SwapLayoutStatus

SpecSwapLayout == Init /\ [][NextSwapLayout]_vars

\* the name as it is shown, the indicator and the keycode of the call
ShownLayoutName ==
    make_ascii_uppercase(<<" ">> \o args.tab_info.active_swap_layout_name.value \o <<" ">>)

LayoutIndicatorText == args.separator \o ShownLayoutName \o args.separator

LayoutKeycode == swap_layout_keycode(args.help)

LayoutFullLen == LayoutKeycode.len + ByteLen(ShownLayoutName) + 2

LayoutShortLen == ByteLen(ShownLayoutName) + 2 + 1

\* C13: swap_layout_status returns nothing without a layout name; else the full
\* form (keycode and indicator, len = full_len) when full_len <= max_len; else
\* the short form (indicator only, len = short_len) when short_len <= max_len
\* and the mode is not Locked; else nothing.  Whatever is returned has
\* len <= max_len, and in Locked mode the short form is never returned.
C13_SwapLayoutForms ==
    op = "swap_layout_status" =>
        /\ IF ~args.tab_info.active_swap_layout_name.is_some THEN ret = NoLinePart
           ELSE IF LayoutFullLen <= args.max_len
           THEN /\ ret.is_some
                /\ ret.value.len = LayoutFullLen
                /\ unstyle(ret.value.part) = unstyle(LayoutKeycode.part) \o LayoutIndicatorText
           ELSE IF LayoutShortLen <= args.max_len /\ args.help.mode # "Locked"
           THEN /\ ret.is_some
                /\ ret.value.len = LayoutShortLen
                /\ unstyle(ret.value.part) = LayoutIndicatorText
           ELSE ret = NoLinePart
        /\ ret.is_some => ret.value.len <= args.max_len
        /\ (args.help.mode = "Locked" /\ ret.is_some) => ret.value.len = LayoutFullLen

\* in Locked mode the short form would fit, the full form does not: nothing
C13_Witness ==
    /\ op = "swap_layout_status"
    /\ args.help.mode = "Locked"
    /\ args.tab_info.active_swap_layout_name = SomeName(<<"a", "b">>)
    /\ LayoutKeycode.len > 1
    /\ LayoutShortLen <= args.max_len
    /\ LayoutFullLen > args.max_len
    /\ ret = NoLinePart

\* the result of the same call with the dirty flag flipped
WithDirtyFlagFlipped ==
    swap_layout_status(args.max_len, args.tab_info.active_swap_layout_name,
                       ~args.tab_info.is_swap_layout_dirty, args.help, args.separator)

\* the escape sequences of the indicator's style
IndicatorStyleUsed(part, style_name) ==
    /\ \E i \in 1..Len(part) : part[i] = Esc(style_name, "styled_text")
    /\ \A i \in 1..Len(part) :
           part[i] # Esc(IF style_name = "selected" THEN "unselected" ELSE "selected",
                         "styled_text")

\* C24: the dirty flag changes the style of the indicator only (selected when
\* clean, unselected when dirty): two calls that differ in the flag alone agree
\* on Some/None, on the form, on len and on the text without styling.
C24_DirtyFlagChangesStyleOnly ==
    op = "swap_layout_status" =>
        /\ ret.is_some = WithDirtyFlagFlipped.is_some
        /\ ret.value.len = WithDirtyFlagFlipped.value.len
        /\ unstyle(ret.value.part) = unstyle(WithDirtyFlagFlipped.value.part)
        /\ ret.is_some =>
               /\ (unstyle(ret.value.part) = LayoutIndicatorText)
                      = (unstyle(WithDirtyFlagFlipped.value.part) = LayoutIndicatorText)
               /\ IndicatorStyleUsed(ret.value.part,
                                     IF args.tab_info.is_swap_layout_dirty
                                     THEN "unselected" ELSE "selected")

C24_Witness ==
    /\ op = "swap_layout_status"
    /\ args.tab_info.is_swap_layout_dirty
    /\ ret.is_some
    /\ LayoutKeycode.len > 0
    /\ unstyle(ret.value.part) = LayoutIndicatorText
    /\ ret.value.part # WithDirtyFlagFlipped.value.part
    /\ unstyle(ret.value.part) = unstyle(WithDirtyFlagFlipped.value.part)

\* C14: every LinePart swap_layout_status returns has len equal to the number
\* of characters of its text with the styling removed, for every separator and
\* every layout name.
C14_SwapLayoutLenIsVisibleWidth ==
    (op = "swap_layout_status" /\ ret.is_some)
        => ret.value.len = CharsCount(unstyle(ret.value.part))

-----------------------------------------------------------------------------
(* Labels: KeyAction::from and KeyShortcut::full_text *)

\* the label of a shortcut built for an input mode
FullTextOfMode ==
    /\ op = "init"
    /\ \E input_mode \in InputModes, mode \in KeyModes, key \in TileKeys :
        /\ op' = "full_text_of_mode"
        /\ stderr' = <<>>
        /\ args' = [NoArgs EXCEPT !.input_mode = input_mode,
                                  !.key = KeyShortcut(mode, from(input_mode), key)]
        /\ ret' = full_text(KeyShortcut(mode, from(input_mode), key))
        /\ line' = LinePartDefault

\* the label of a shortcut built for an action
FullText ==
    /\ op = "init"
    /\ \E key \in TileShortcuts :
        /\ op' = "full_text"
        /\ stderr' = <<>>
        /\ args' = [NoArgs EXCEPT !.key = key]
        /\ ret' = full_text(key)
        /\ line' = LinePartDefault

NextLabels == FullTextOfMode \/ FullText

SpecLabels == Init /\ [][NextLabels]_vars

UnlockLabel == <<"U", "N", "L", "O", "C", "K">>

\* the modes without an arm of their own in the conversion
UnmappedModes == {"Scroll", "EnterSearch", "RenameTab", "RenamePane", "Prompt"}

NormalAndUnlockShowUnlock ==
    (op \in {"full_text", "full_text_of_mode"} /\ args.key.action \in {"Normal", "Unlock"})
        => ret = UnlockLabel

\* C16 as stated: the label of Tmux and of every mode that is not mapped
\* (Scroll, EnterSearch, RenameTab, RenamePane, Prompt) is Normal's label
\* "UNLOCK"; Normal and Unlock both display as "UNLOCK".
C16_TmuxAndUnmappedShowUnlock ==
    /\ (op = "full_text_of_mode" /\ args.input_mode \in UnmappedModes \cup {"Tmux", "Normal"})
           => ret = UnlockLabel
    /\ NormalAndUnlockShowUnlock

\* C16 amended: the label of every mode that is not mapped (Scroll, EnterSearch,
\* RenameTab, RenamePane, Prompt) is Normal's label "UNLOCK"; Tmux has an action
\* of its own and displays as "TMUX"; Normal and Unlock both display as "UNLOCK".
C16_UnmappedShowUnlock ==
    /\ (op = "full_text_of_mode" /\ args.input_mode \in UnmappedModes \cup {"Normal"})
           => (args.key.action = "Normal" /\ ret = UnlockLabel)
    /\ (op = "full_text_of_mode" /\ args.input_mode = "Tmux")
           => (args.key.action = "Tmux" /\ ret = <<"T", "M", "U", "X">>)
    /\ NormalAndUnlockShowUnlock

C16_Witness ==
    /\ op = "full_text_of_mode"
    /\ args.input_mode = "Tmux"
    /\ args.key.action = "Tmux"
    /\ ret = <<"T", "M", "U", "X">>

-----------------------------------------------------------------------------
(* Calls of with_shortened_modifiers *)

WithShortenedModifiers ==
    /\ op = "init"
    /\ \E key \in TileShortcuts, common_modifiers \in CommonModifierSets :
        /\ op' = "with_shortened_modifiers"
        /\ stderr' = <<>>
        /\ args' = [NoArgs EXCEPT !.key = key, !.common_modifiers = common_modifiers]
        /\ ret' = with_shortened_modifiers(key, common_modifiers)
        /\ line' = LinePartDefault

NextShortened == WithShortenedModifiers

SpecShortened == Init /\ [][NextShortened]_vars

\* the modifiers of the key that are not common, and their codes joined by "-"
RemainingModifiers ==
    args.key.key.key_modifiers
    \ {args.common_modifiers[i] : i \in 1..Len(args.common_modifiers)}

CodesOfRemaining ==
    (IF "Ctrl" \in RemainingModifiers THEN <<<<"^", "C">>>> ELSE <<>>)
    \o (IF "Alt" \in RemainingModifiers THEN <<<<"^", "A">>>> ELSE <<>>)
    \o (IF "Shift" \in RemainingModifiers THEN <<<<"^", "S", "h">>>> ELSE <<>>)
    \o (IF "Super" \in RemainingModifiers THEN <<<<"^", "S", "u">>>> ELSE <<>>)

\* C22: with_shortened_modifiers returns "?" for a shortcut without a key;
\* otherwise it strips the common modifiers and returns the codes of the
\* remaining ones (^C, ^A, ^Su, ^Sh) joined by "-", a space and the bare key,
\* or the key's display text when no modifier remains.
C22_ShortenedModifiers ==
    op = "with_shortened_modifiers" =>
        IF args.key.key = NoKey THEN ret = <<"?">>
        ELSE IF RemainingModifiers = {}
        THEN ret = KeyText(Key(args.key.key.bare_key, {}))
        ELSE ret = Join(CodesOfRemaining, <<"-">>) \o <<" ">>
                   \o BareKeyText(args.key.key.bare_key)

C22_Witness ==
    /\ op = "with_shortened_modifiers"
    /\ args.key.key = Key("Left", {"Shift", "Super"})
    /\ args.common_modifiers = <<"Ctrl">>
    /\ ret = <<"^", "S", "h", "-", "^", "S", "u", " ", "{larr}">>

-----------------------------------------------------------------------------
(* Calls of to_char *)

\* key lists, one key longer than a keymap of MaxKeys entries
ToCharLists == UNION {[1..n -> SwitchKeys] : n \in 0..(MaxKeys + 1)}

ToChar ==
    /\ op = "init"
    /\ \E kv \in ToCharLists :
        /\ op' = "to_char"
        /\ stderr' = <<>>
        /\ args' = [NoArgs EXCEPT !.keys = kv]
        /\ ret' = to_char(kv)
        /\ line' = LinePartDefault

NextToChar == ToChar

SpecToChar == Init /\ [][NextToChar]_vars

BackToNormalKey(i) == args.keys[i].bare_key \in {"Enter", "Space", "Esc"}

\* C23: to_char returns None exactly for the empty list; otherwise the first
\* key of the list whose bare key is not Enter, Space or Esc, and the first key
\* of the list only when every key is one of those three.  The result is a
\* member of the list.
C23_ToCharPicksFirstInteresting ==
    op = "to_char" =>
        /\ ret = NoKey <=> args.keys = <<>>
        /\ args.keys # <<>> =>
               /\ \E i \in 1..Len(args.keys) : ret = args.keys[i]
               /\ \A i \in 1..Len(args.keys) :
                      (~BackToNormalKey(i) /\ \A j \in 1..(i - 1) : BackToNormalKey(j))
                          => ret = args.keys[i]
               /\ (\A i \in 1..Len(args.keys) : BackToNormalKey(i)) => ret = args.keys[1]

C23_Witness ==
    /\ op = "to_char"
    /\ args.keys = <<Key("Enter", {"Alt"}), Key("Esc", {"Ctrl"}), Key("Space", {})>>
    /\ ret = Key("Enter", {"Alt"})

-----------------------------------------------------------------------------
(* Calls of superkey *)

\* bindings of the current mode: mode switches on Ctrl, Ctrl+Alt, Alt and Super,
\* an Enter that is passed over and a key that switches no mode
SuperkeyBinds ==
    {Bind(Key("a", {"Ctrl"}), <<SwitchToMode("Pane")>>),
     Bind(Key("b", {"Ctrl", "Alt"}), <<SwitchToMode("Tab")>>),
     Bind(Key("n", {"Alt"}), <<Act("Quit")>>),
     Bind(Key("Enter", {}), <<SwitchToMode("Normal")>>),
     Bind(Key("x", {}), <<Act("NewPane")>>),
     Bind(Key("g", {"Super"}), <<SwitchToMode("Locked")>>)}

SuperkeyKeymaps == UNION {[1..n -> SuperkeyBinds] : n \in 0..MaxKeys}

Superkey ==
    /\ op = "init"
    /\ \E separator \in Separators, keymap \in SuperkeyKeymaps, arrow_fonts \in BOOLEAN,
          line_part_to_render \in ComposerLines :
        LET mode_info == ModeInfo("Normal", [NoKeybinds EXCEPT !["Normal"] = keymap],
                                  arrow_fonts)
            result == superkey(separator, mode_info, line_part_to_render)
        IN  /\ op' = "superkey"
            /\ stderr' = <<>>
            /\ args' = [NoArgs EXCEPT !.separator = separator, !.help = mode_info,
                                      !.line = line_part_to_render]
            /\ line' = result.line
            /\ ret' = result.common_modifiers

NextSuperkey == Superkey

SpecSuperkey == Init /\ [][NextSuperkey]_vars

\* the banner as the claim words it
BannerAsStated ==
    <<" ">> \o Join([i \in 1..Len(ret) |-> ModifierText(ret[i])], <<"-">>) \o <<" ", "+">>
    \o (IF args.help.arrow_fonts THEN <<" ">> ELSE <<>>)

\* C21: superkey leaves the line unchanged and returns no modifier when the
\* mode-switch keys share none; otherwise it appends one banner
\* " <modifiers joined by '-'> +" (one more space after '+' with arrow_fonts)
\* and the separator, adds their character counts to len, and returns the
\* common modifiers.
C21_SuperkeyBanner ==
    op = "superkey" =>
        /\ ret = get_common_modifiers(mode_switch_keys(args.help))
        /\ ret = <<>> => line = args.line
        /\ ret # <<>> =>
               /\ unstyle(line.part) = unstyle(args.line.part) \o BannerAsStated
                                       \o args.separator
               /\ line.len = args.line.len + Len(BannerAsStated) + Len(args.separator)

C21_Witness ==
    /\ op = "superkey"
    /\ ret = <<"Ctrl">>
    /\ args.help.arrow_fonts
    /\ args.separator = <<"+", "+">>
    /\ args.line.len = 3
    /\ unstyle(line.part) = <<" ", "x", " ", " ", "C", "t", "r", "l", " ", "+", " ", "+", "+">>
    /\ line.len = 13

Next == NextTiles \/ NextComposer \/ NextFirstLine \/ NextModifiers \/ NextSwitchKeys \/ NextSwapLayout \/ NextLabels \/ NextSuperkey \/ NextShortened \/ NextToChar

Spec == Init /\ [][Next]_vars

====
